---- MODULE Spec2Model ----
(***************************************************************************)
(* Model of datadog/provider.go: providerConfigure (the bootstrap of the   *)
(* legacy client and of the v1 and v2 client configurations),              *)
(* translateClientError and getUserAgent.                                  *)
(*                                                                         *)
(* Strings that the code parses (api_url, hosts) are sequences of          *)
(* one-byte characters; "CTL" stands for one ASCII control byte.  Strings  *)
(* that the code only formats (user agents, error messages) are sequences  *)
(* of text chunks.                                                         *)
(***************************************************************************)
EXTENDS Integers, Sequences, FiniteSets, TLC

\* An optional value is <<>> (Go's nil) or <<v>>.
NULL == <<>>
Some(v) == <<v>>
Val(o) == o[1]

\* Go's nil error
NoError == [kind |-> "nil", arg |-> <<>>]

\* ------------------------------------------------------------------ bounds
\* Longest api_url enumerated exhaustively over RawChars.
MaxRawLen == 3
\* Most DNS labels in the hosts of the composed api_url values.
MaxLabels == 4
\* Longest context message (in chunks) handed to translateClientError.
MaxMsgLen == 2

\* ------------------------------------------------------- string primitives
LowerLetters == {"a", "b", "c", "d", "e", "f", "g", "h", "i", "j", "k", "l", "m",
                 "n", "o", "p", "q", "r", "s", "t", "u", "v", "w", "x", "y", "z"}
UpperLetters == {"H", "S"}
Digits       == {"0", "1", "2", "3", "4", "5", "6", "7", "8", "9"}

IsLetter(c) == c \in LowerLetters \cup UpperLetters
IsDigit(c)  == c \in Digits
IsCTL(c)    == c = "CTL"

\* strings.ToLower, on the letters of the model
LowerOf(c) == IF c = "S" THEN "s" ELSE IF c = "H" THEN "h" ELSE c
ToLower(s) == [i \in 1..Len(s) |-> LowerOf(s[i])]

\* strings.Index(s, c) for a one-byte c, 1-based; 0 when absent (Go: -1)
Index(s, c) ==
    IF \E i \in 1..Len(s) : s[i] = c
    THEN CHOOSE i \in 1..Len(s) : s[i] = c /\ \A j \in 1..(i-1) : s[j] # c
    ELSE 0

\* strings.LastIndex(s, c) for a one-byte c, 1-based; 0 when absent
LastIndex(s, c) ==
    IF \E i \in 1..Len(s) : s[i] = c
    THEN CHOOSE i \in 1..Len(s) : s[i] = c /\ \A j \in (i+1)..Len(s) : s[j] # c
    ELSE 0

\* strings.HasPrefix
HasPrefix(s, p) == Len(s) >= Len(p) /\ SubSeq(s, 1, Len(p)) = p

\* s[i:] of Go for the 1-based index i
From(s, i) == SubSeq(s, i, Len(s))

\* strings.Split(s, ".") : the labels between the dots (never empty as a list)
RECURSIVE Split(_, _)
Split(s, c) ==
    LET i == Index(s, c) IN
    IF i = 0 THEN <<s>>
    ELSE <<SubSeq(s, 1, i-1)>> \o Split(From(s, i+1), c)

\* strings.Join(a, ".")
RECURSIVE Join(_, _)
Join(a, c) ==
    IF Len(a) = 0 THEN <<>>
    ELSE IF Len(a) = 1 THEN a[1]
    ELSE a[1] \o <<c>> \o Join(Tail(a), c)

\* ------------------------------------------------------------ net/url.Parse
\* getscheme: (scheme, path, err)
RECURSIVE getschemeAt(_, _)
getschemeAt(rawurl, i) ==
    IF i > Len(rawurl)
    THEN [scheme |-> <<>>, path |-> rawurl, err |-> FALSE]
    ELSE LET c == rawurl[i] IN
         IF IsLetter(c) THEN getschemeAt(rawurl, i+1)
         ELSE IF IsDigit(c) \/ c \in {"+", "-", "."}
              THEN IF i = 1
                   THEN [scheme |-> <<>>, path |-> rawurl, err |-> FALSE]
                   ELSE getschemeAt(rawurl, i+1)
         ELSE IF c = ":"
              THEN IF i = 1
                   THEN [scheme |-> <<>>, path |-> <<>>, err |-> TRUE]
                   ELSE [scheme |-> SubSeq(rawurl, 1, i-1),
                         path   |-> From(rawurl, i+1), err |-> FALSE]
         ELSE [scheme |-> <<>>, path |-> rawurl, err |-> FALSE]

getscheme(rawurl) == getschemeAt(rawurl, 1)

\* validOptionalPort: "" or ":" followed by digits only
validOptionalPort(port) ==
    \/ port = <<>>
    \/ /\ port[1] = ":"
       /\ \A i \in 2..Len(port) : IsDigit(port[i])

\* shouldEscape(c, encodeHost): of the alphabet of the model, the one byte an
\* authority may not hold unescaped ("/" and "?" never reach parseHost)
InvalidHostByte(c) == c = " "

\* parseHost (no "[" in the alphabet: the IPv6 branch is not taken)
parseHostErr(host) ==
    \/ LET i == LastIndex(host, ":") IN
       i # 0 /\ ~validOptionalPort(From(host, i))
    \/ \E i \in 1..Len(host) : InvalidHostByte(host[i])

\* parse(rawurl, viaRequest = false), as far as Scheme, Host and the error
ParseURL(rawurl) ==
    LET bad == [err |-> TRUE, Scheme |-> <<>>, Host |-> <<>>] IN
    IF \E i \in 1..Len(rawurl) : IsCTL(rawurl[i]) THEN bad
    ELSE
    LET gs == getscheme(rawurl) IN
    IF gs.err THEN bad
    ELSE
    LET scheme == ToLower(gs.scheme)
        q      == Index(gs.path, "?")
        rest   == IF q = 0 THEN gs.path ELSE SubSeq(gs.path, 1, q-1)
    IN
    IF ~HasPrefix(rest, <<"/">>) /\ scheme # <<>>
    THEN \* rootless path: kept as Opaque, no host
         [err |-> FALSE, Scheme |-> scheme, Host |-> <<>>]
    ELSE
    LET colon == Index(rest, ":")
        slash == Index(rest, "/")
    IN
    IF ~HasPrefix(rest, <<"/">>) /\ colon > 0 /\ (slash = 0 \/ colon < slash)
    THEN bad   \* first path segment in URL cannot contain colon
    ELSE
    IF (scheme # <<>> \/ ~HasPrefix(rest, <<"/", "/", "/">>))
         /\ HasPrefix(rest, <<"/", "/">>)
    THEN LET after     == From(rest, 3)
             i         == Index(after, "/")
             authority == IF i = 0 THEN after ELSE SubSeq(after, 1, i-1)
         IN IF parseHostErr(authority) THEN bad
            ELSE [err |-> FALSE, Scheme |-> scheme, Host |-> authority]
    ELSE [err |-> FALSE, Scheme |-> scheme, Host |-> <<>>]

\* (*URL).Hostname: the host without a valid port
Hostname(host) ==
    LET colon == LastIndex(host, ":") IN
    IF colon # 0 /\ validOptionalPort(From(host, colon))
    THEN SubSeq(host, 1, colon-1)
    ELSE host

\* ----------------------------------------------------------- fmt.Sprintf
\* A format is a sequence of chunks: literal text, or one of the verbs below.
\* An argument is [type, text, bytes]: text is what %s prints (the Error()
\* text of an error, the bytes of a []byte as a string), bytes tells a []byte.
Verbs == {"%s", "%v"}

\* what one verb prints for one argument
Formatted(verb, arg) ==
    IF verb = "%v" /\ arg.bytes
    THEN "[98 111 100 121]"   \* %v of []byte("body"): the bytes in decimal
    ELSE arg.text

\* the "%!(EXTRA type=value, ...)" tail for arguments no verb consumed
RECURSIVE ExtraArgs(_)
ExtraArgs(args) ==
    IF Len(args) = 0 THEN <<>>
    ELSE <<args[1].type, "=", Formatted("%v", args[1])>>
         \o (IF Len(args) > 1 THEN <<", ">> ELSE <<>>)
         \o ExtraArgs(Tail(args))

RECURSIVE Sprintf(_, _)
Sprintf(format, args) ==
    IF Len(format) = 0
    THEN IF Len(args) = 0 THEN <<>>
         ELSE <<"%!(EXTRA ">> \o ExtraArgs(args) \o <<")">>
    ELSE LET f == Head(format) IN
         IF f \in Verbs
         THEN IF Len(args) = 0
              THEN <<IF f = "%s" THEN "%!s(MISSING)" ELSE "%!v(MISSING)">>
                   \o Sprintf(Tail(format), args)
              ELSE <<Formatted(f, Head(args))>>
                   \o Sprintf(Tail(format), Tail(args))
         ELSE <<f>> \o Sprintf(Tail(format), args)

\* getUserAgent with the client's own agent left out
getUserAgentNoClient(e, clientUserAgent) ==
    <<"terraform-provider-datadog/", e.ProviderVersion,
      " (terraform ", e.SDKVersion,
      "; terraform-cli ", e.TerraformVersion, ") ">>

\* ---------------------------------------------------------- getUserAgent
\* env holds what the process reads from outside this file: the three version
\* inputs, the runtime, and the default agents of the v1 and v2 libraries.
getUserAgent(e, clientUserAgent) ==
    <<"terraform-provider-datadog/", e.ProviderVersion,
      " (terraform ", e.SDKVersion,
      "; terraform-cli ", e.TerraformVersion, ") ">> \o clientUserAgent

\* the agent providerConfigure formats for the community (legacy) client
communityUserAgent(e) ==
    <<"datadog-api-client-go/", "go-datadog-api",
      " (go ", e.goVersion, "; os ", e.GOOS, "; arch ", e.GOARCH, ")">>

\* ---------------------------------------------------- translateClientError
DefaultMsg == <<"an error occurred">>

translateClientError(err, msg) ==
    LET m    == IF msg = <<>> THEN DefaultMsg ELSE msg
        earg == [type |-> err.type, text |-> err.text, bytes |-> FALSE]
        barg == [type |-> "[]uint8", text |-> err.body, bytes |-> TRUE]
        sarg == [type |-> "string", text |-> err.text, bytes |-> FALSE]
    IN
    IF err.type \in {"datadogV1.GenericOpenAPIError", "datadogV2.GenericOpenAPIError"}
    THEN Sprintf(m \o <<": ", "%v", ": ", "%s">>, <<earg, barg>>)
    ELSE IF err.type = "*url.Error"
    THEN Sprintf(m \o <<" (url.Error): ", "%s">>, <<earg>>)
    ELSE Sprintf(m \o <<": ", "%s">>, <<sarg>>)

\* ------------------------------------------------------- providerConfigure
baseIpRangesSubdomain == <<"i", "p", "-", "r", "a", "n", "g", "e", "s">>
IPRangesOperation == "IPRangesApiService.GetIPRanges"
\* the base URL of a community client no SetBaseUrl has touched
DefaultBaseUrl ==
    <<"h", "t", "t", "p", "s", ":", "/", "/", "a", "p", "i", ".", "d", "a", "t",
      "a", "d", "o", "g", "h", "q", ".", "c", "o", "m">>

\* context.WithValue: the newest value of a key shadows the older ones
WithValue(ctx, key, val) == (key :> val) @@ ctx

\* the credentials guard with "and" for "or"
MissingCredentialsBothEmpty(cfg) ==
    cfg.validate /\ (cfg.api_key = "" /\ cfg.app_key = "")

\* line 127
MissingCredentials(cfg) ==
    cfg.validate /\ (cfg.api_key = "" \/ cfg.app_key = "")

\* lines 132-147: the community client, its base URL and its User-Agent
NewCommunityClient(cfg, e) ==
    [apiKey    |-> cfg.api_key,
     appKey    |-> cfg.app_key,
     baseUrl   |-> IF cfg.api_url # <<>> THEN cfg.api_url ELSE DefaultBaseUrl,
     UserAgent |-> getUserAgent(e, communityUserAgent(e))]

\* the validation result with the ok flag ignored
ValidationErrorIgnoresOk(outcome) ==
    IF outcome = "transport_error"
    THEN [kind |-> "ValidationTransportError", arg |-> <<>>]
    ELSE NoError

\* lines 151-159: what providerConfigure makes of Validate's (ok, err)
ValidationError(outcome) ==
    IF outcome = "transport_error"
    THEN [kind |-> "ValidationTransportError", arg |-> <<>>]
    ELSE IF outcome = "rejected"
    THEN [kind |-> "InvalidCredentials", arg |-> <<>>]
    ELSE NoError

\* lines 166-177 and 223-234
APIKeysContext(cfg) ==
    "ContextAPIKeys" :> [apiKeyAuth |-> [Key |-> cfg.api_key],
                         appKeyAuth |-> [Key |-> cfg.app_key]]

\* the endpoint check with the scheme left unchecked
EndpointErrorHostOnly(apiURL) ==
    LET parsedApiUrl == ParseURL(apiURL) IN
    IF parsedApiUrl.err
    THEN [kind |-> "MalformedEndpoint", arg |-> apiURL]
    ELSE IF parsedApiUrl.Host = <<>>
    THEN [kind |-> "IncompleteEndpoint", arg |-> apiURL]
    ELSE NoError

\* lines 187-193 and 239-245: the error of the endpoint check, or nil
EndpointError(apiURL) ==
    LET parsedApiUrl == ParseURL(apiURL) IN
    IF parsedApiUrl.err
    THEN [kind |-> "MalformedEndpoint", arg |-> apiURL]
    ELSE IF parsedApiUrl.Host = <<>> \/ parsedApiUrl.Scheme = <<>>
    THEN [kind |-> "IncompleteEndpoint", arg |-> apiURL]
    ELSE NoError

\* the server override with Hostname() (no port) for Host
ServerOverrideHostname(ctx, apiURL) ==
    LET parsedApiUrl == ParseURL(apiURL) IN
    WithValue(WithValue(ctx, "ContextServerIndex", 1),
              "ContextServerVariables",
              [name     |-> Hostname(parsedApiUrl.Host),
               protocol |-> parsedApiUrl.Scheme])

\* lines 195-199 and 247-251: server slot 1 with the parsed name and protocol
ServerOverride(ctx, apiURL) ==
    LET parsedApiUrl == ParseURL(apiURL) IN
    WithValue(WithValue(ctx, "ContextServerIndex", 1),
              "ContextServerVariables",
              [name |-> parsedApiUrl.Host, protocol |-> parsedApiUrl.Scheme])

\* the IP-ranges host built from the last two labels only
IPRangesNameTopTwo(apiURL) ==
    LET ipRangesDNSNameArr == Split(Hostname(ParseURL(apiURL).Host), ".")
        n == Len(ipRangesDNSNameArr)
        stripped == IF n > 2
                    THEN SubSeq(ipRangesDNSNameArr, n-1, n)
                    ELSE ipRangesDNSNameArr
    IN Join(<<baseIpRangesSubdomain>> \o stripped, ".")

\* lines 203-208 and 215: the host of the IP-ranges operation
IPRangesName(apiURL) ==
    LET ipRangesDNSNameArr == Split(Hostname(ParseURL(apiURL).Host), ".")
        stripped == IF Len(ipRangesDNSNameArr) > 2
                    THEN Tail(ipRangesDNSNameArr)
                    ELSE ipRangesDNSNameArr
    IN Join(<<baseIpRangesSubdomain>> \o stripped, ".")

\* lines 210-217: the per-operation routing of the v1 context
OperationRouting(ctx, apiURL) ==
    WithValue(WithValue(ctx, "ContextOperationServerIndices",
                        IPRangesOperation :> 1),
              "ContextOperationServerVariables",
              IPRangesOperation :> [name |-> IPRangesName(apiURL)])

\* the v1 context with the routing attached whatever api_url is
BuildAuthV1Unguarded(cfg) ==
    OperationRouting(
        IF cfg.api_url # <<>>
        THEN ServerOverride(APIKeysContext(cfg), cfg.api_url)
        ELSE APIKeysContext(cfg),
        cfg.api_url)

\* lines 166-218: the v1 context once the endpoint check has passed
BuildAuthV1(cfg) ==
    IF cfg.api_url # <<>>
    THEN OperationRouting(ServerOverride(APIKeysContext(cfg), cfg.api_url),
                          cfg.api_url)
    ELSE APIKeysContext(cfg)

\* lines 223-252: the v2 context once the endpoint check has passed
BuildAuthV2(cfg) ==
    IF cfg.api_url # <<>>
    THEN ServerOverride(APIKeysContext(cfg), cfg.api_url)
    ELSE APIKeysContext(cfg)

\* lines 178-185
NewConfigV1(e) ==
    [UserAgent |-> getUserAgent(e, e.v1UserAgent),
     Debug     |-> e.debug,
     unstable  |-> {"GetLogsIndex", "ListLogIndexes", "UpdateLogsIndex",
                    "UpdateLogsIndexOrder"}]

\* lines 235-237
NewConfigV2(e) ==
    [UserAgent |-> getUserAgent(e, e.v2UserAgent),
     Debug     |-> e.debug,
     unstable  |-> {}]

\* ------------------------------------------------------------------ inputs
\* the bytes of the api_url values enumerated exhaustively
RawChars == {"x", "S", "8", ":", "/", ".", " ", "?", "CTL"}

RECURSIVE SeqsUpTo(_, _)
SeqsUpTo(S, n) ==
    IF n = 0 THEN {<<>>}
    ELSE LET shorter == SeqsUpTo(S, n-1) IN
         shorter \cup {Append(q, c) : q \in {r \in shorter : Len(r) = n-1}, c \in S}

RawURLs == SeqsUpTo(RawChars, MaxRawLen)

\* api_url values composed as [scheme ":"] ["//"] label("." label)* [port] [path]
LabelLetters == <<"w", "x", "y", "z", "v", "u">>
Labels(n) == [i \in 1..n |-> <<LabelLetters[((i-1) % Len(LabelLetters)) + 1]>>]

ComposedURLs ==
    {scheme \o sep \o Join(Labels(n), ".") \o port \o path :
        scheme \in {<<>>, <<"S", "x", ":">>},
        sep    \in {<<>>, <<"/", "/">>},
        n      \in 0..MaxLabels,
        port   \in {<<>>, <<":", "8">>, <<":", "x">>},
        path   \in {<<>>, <<"/", "y">>}}

URLs == RawURLs \cup ComposedURLs

Configs ==
    [api_key : {"", "key"}, app_key : {"", "key"},
     api_url : URLs, validate : BOOLEAN]

\* what the process reads from outside: versions, runtime, library defaults
Envs ==
    {[ProviderVersion |-> "2.13.0", SDKVersion |-> "1.15.0",
      TerraformVersion |-> "0.12.29",
      goVersion |-> "go1.14", GOOS |-> "linux", GOARCH |-> "amd64",
      v1UserAgent |-> <<"datadog-api-client-go/", "1.0.0-beta.9",
                        " (go ", "go1.14", "; os ", "linux", "; arch ", "amd64", ")">>,
      v2UserAgent |-> <<"datadog-api-client-go/", "1.0.0-beta.9",
                        " (go ", "go1.14", "; os ", "linux", "; arch ", "amd64", ")">>,
      debug |-> FALSE],
     [ProviderVersion |-> "dev", SDKVersion |-> "1.16.0",
      TerraformVersion |-> "0.13.0",
      goVersion |-> "go1.15", GOOS |-> "darwin", GOARCH |-> "arm64",
      v1UserAgent |-> <<"OpenAPI-Generator/1.0.0/go">>,
      v2UserAgent |-> <<"OpenAPI-Generator/2.0.0/go">>,
      debug |-> TRUE]}

\* what communityClient.Validate() can return: (true, nil), (false, nil), (_, err)
ValidateOutcomes == {"ok", "rejected", "transport_error"}

\* the (non-nil) errors the call sites hand to translateClientError
ErrorValues ==
    {[type |-> "datadogV1.GenericOpenAPIError", text |-> "boom", body |-> "body"],
     [type |-> "datadogV2.GenericOpenAPIError", text |-> "boom", body |-> "body"],
     [type |-> "*url.Error", text |-> "boom", body |-> ""],
     [type |-> "*errors.errorString", text |-> "boom", body |-> ""]}

\* the chunks of a context message: literal text, or a formatting verb
MsgChunks == {"ctx", "%s"}
Msgs == SeqsUpTo(MsgChunks, MaxMsgLen)

\* ------------------------------------------------------------------- state
VARIABLES
    d,               \* the schema.ResourceData: api_key, app_key, api_url, validate
    env,             \* versions, runtime and library defaults of this process
    pc,              \* the position of providerConfigure
    communityClient, \* the legacy client, NULL until built
    validateCalls,   \* calls of communityClient.Validate() so far
    validation,      \* what Validate returned, NULL when not called
    configV1,        \* the v1 configuration, NULL until built
    configV2,        \* the v2 configuration, NULL until built
    authV1,          \* the v1 context, NULL until built
    authV2,          \* the v2 context, NULL until built
    result,          \* the returned *ProviderConfiguration, NULL when none
    err,             \* the returned error, NULL when none
    translated       \* the last translateClientError call, NULL when none

vars == <<d, env, pc, communityClient, validateCalls, validation, configV1,
          configV2, authV1, authV2, result, err, translated>>

Init ==
    /\ d \in Configs
    /\ env \in Envs
    /\ pc = "start"
    /\ communityClient = NULL
    /\ validateCalls = 0
    /\ validation = NULL
    /\ configV1 = NULL
    /\ configV2 = NULL
    /\ authV1 = NULL
    /\ authV2 = NULL
    /\ result = NULL
    /\ err = NoError
    /\ translated = NULL

\* the credentials guard followed at once by the endpoint check
CheckCredentialsThenEndpoint ==
    /\ pc = "start"
    /\ IF MissingCredentials(d)
       THEN /\ err' = [kind |-> "MissingCredentials", arg |-> <<>>]
            /\ pc' = "done"
       ELSE IF d.api_url # <<>> /\ EndpointError(d.api_url) # NoError
       THEN /\ err' = EndpointError(d.api_url)
            /\ pc' = "done"
       ELSE /\ pc' = "community"
            /\ UNCHANGED err
    /\ UNCHANGED <<d, env, communityClient, validateCalls, validation, configV1,
                   configV2, authV1, authV2, result, translated>>

\* lines 123-129: the credentials guard
CheckCredentials ==
    /\ pc = "start"
    /\ IF MissingCredentials(d)
       THEN /\ err' = [kind |-> "MissingCredentials", arg |-> <<>>]
            /\ pc' = "done"
       ELSE /\ pc' = "community"
            /\ UNCHANGED err
    /\ UNCHANGED <<d, env, communityClient, validateCalls, validation, configV1,
                   configV2, authV1, authV2, result, translated>>

\* lines 131-147: the community client
InitCommunityClient ==
    /\ pc = "community"
    /\ communityClient' = Some(NewCommunityClient(d, env))
    /\ pc' = "validate"
    /\ UNCHANGED <<d, env, validateCalls, validation, configV1, configV2,
                   authV1, authV2, result, err, translated>>

\* the live check with one retry after a transport error
ValidateWithRetry ==
    /\ pc = "validate"
    /\ IF d.validate
       THEN \E first \in ValidateOutcomes, outcome \in ValidateOutcomes :
              /\ validateCalls' = IF first = "transport_error"
                                  THEN validateCalls + 2 ELSE validateCalls + 1
              /\ validation' = Some(IF first = "transport_error"
                                    THEN outcome ELSE first)
              /\ err' = ValidationError(Val(validation'))
              /\ pc' = IF err' = NoError THEN "v1" ELSE "done"
       ELSE /\ pc' = "v1"
            /\ UNCHANGED <<validateCalls, validation, err>>
    /\ UNCHANGED <<d, env, communityClient, configV1, configV2, authV1, authV2,
                   result, translated>>

\* lines 149-163: the optional live check, one call of Validate
Validate ==
    /\ pc = "validate"
    /\ IF d.validate
       THEN \E outcome \in ValidateOutcomes :
              /\ validateCalls' = validateCalls + 1
              /\ validation' = Some(outcome)
              /\ err' = ValidationError(outcome)
              /\ pc' = IF ValidationError(outcome) = NoError THEN "v1" ELSE "done"
       ELSE /\ pc' = "v1"
            /\ UNCHANGED <<validateCalls, validation, err>>
    /\ UNCHANGED <<d, env, communityClient, configV1, configV2, authV1, authV2,
                   result, translated>>

\* lines 165-220: the v1 context, configuration and client
BuildV1 ==
    /\ pc = "v1"
    /\ configV1' = Some(NewConfigV1(env))
    /\ IF d.api_url # <<>> /\ EndpointError(d.api_url) # NoError
       THEN /\ err' = EndpointError(d.api_url)
            /\ pc' = "done"
            /\ UNCHANGED authV1
       ELSE /\ authV1' = Some(BuildAuthV1(d))
            /\ pc' = "v2"
            /\ UNCHANGED err
    /\ UNCHANGED <<d, env, communityClient, validateCalls, validation, configV2,
                   authV2, result, translated>>

\* lines 256-264
NewProviderConfiguration(community, cV1, cV2, aV1, aV2) ==
    [CommunityClient |-> community,
     DatadogClientV1 |-> cV1,
     DatadogClientV2 |-> cV2,
     AuthV1          |-> aV1,
     AuthV2          |-> aV2,
     now             |-> "time.Now"]

\* lines 222-265: the v2 context, configuration and client, and the return
BuildV2 ==
    /\ pc = "v2"
    /\ configV2' = Some(NewConfigV2(env))
    /\ IF d.api_url # <<>> /\ EndpointError(d.api_url) # NoError
       THEN /\ err' = EndpointError(d.api_url)
            /\ UNCHANGED <<authV2, result>>
       ELSE /\ authV2' = Some(BuildAuthV2(d))
            /\ result' = Some(NewProviderConfiguration(
                             Val(communityClient), Val(configV1),
                             NewConfigV2(env), Val(authV1), BuildAuthV2(d)))
            /\ UNCHANGED err
    /\ pc' = "done"
    /\ UNCHANGED <<d, env, communityClient, validateCalls, validation, configV1,
                   authV1, translated>>

\* lines 267-283: a call site translates an error of one of the clients
\* (the first such call is the one recorded)
TranslateClientError ==
    /\ pc = "done"
    /\ result # NULL
    /\ translated = NULL
    /\ \E e \in ErrorValues, msg \in Msgs :
         translated' = Some([err |-> e, msg |-> msg,
                             out |-> translateClientError(e, msg)])
    /\ UNCHANGED <<d, env, pc, communityClient, validateCalls, validation,
                   configV1, configV2, authV1, authV2, result, err>>

Next ==
    \/ CheckCredentials
    \/ InitCommunityClient
    \/ Validate
    \/ BuildV1
    \/ BuildV2
    \/ TranslateClientError

Spec == Init /\ [][Next]_vars
\* ------------------------------------------------------------ properties
Done == pc = "done"
BothKeys == d.api_key # "" /\ d.app_key # ""
CredentialsMissing == d.validate /\ (d.api_key = "" \/ d.app_key = "")
EndpointKinds == {"MalformedEndpoint", "IncompleteEndpoint"}
ValidationKinds == {"ValidationTransportError", "InvalidCredentials"}
BadEndpoint == d.api_url # <<>> /\ EndpointError(d.api_url) # NoError
Has(ctx, key) == key \in DOMAIN ctx

\* s holds sub as a run of consecutive chunks
Contains(s, sub) ==
    \E i \in 0..(Len(s) - Len(sub)) : SubSeq(s, i+1, i+Len(sub)) = sub

\* C1: one run of providerConfigure calls Validate never more than once, not
\* at all when validate is false (whatever the credentials), and exactly once
\* when validate is true and both credentials are non-empty.
C1_ValidationCalls ==
    /\ validateCalls <= 1
    /\ ~d.validate => validateCalls = 0
    /\ (Done /\ d.validate /\ BothKeys) => validateCalls = 1

C1_Witness ==
    /\ Done /\ d.validate /\ BothKeys /\ validateCalls = 1
    /\ d.api_url # <<>>

\* C2: with validate true and an empty api_key or app_key, providerConfigure
\* returns the missing-credentials error at once: no Validate call, no client
\* or configuration built, no configuration object returned, whatever api_url.
C2_MissingCredentialsFailFast ==
    (pc # "start" /\ d.validate /\ (d.api_key = "" \/ d.app_key = "")) =>
        /\ Done
        /\ err.kind = "MissingCredentials"
        /\ validateCalls = 0
        /\ communityClient = NULL
        /\ configV1 = NULL /\ configV2 = NULL
        /\ authV1 = NULL /\ authV2 = NULL
        /\ result = NULL

C2_Witness ==
    /\ Done /\ d.validate /\ d.api_key = "key" /\ d.app_key = ""
    /\ d.api_url # <<>>
    /\ err.kind = "MissingCredentials"

\* C3 as claimed: with an api_url that fails the endpoint check (credentials
\* not missing), the run ends with the endpoint error and no Validate call.
C3_EndpointBeforeValidation ==
    (Done /\ BadEndpoint /\ ~CredentialsMissing) =>
        /\ err.kind \in EndpointKinds
        /\ validateCalls = 0

\* C3 as amended: validation precedes the endpoint check.  With an api_url
\* that fails the endpoint check (credentials not missing), Validate has been
\* called once when validate is true and not at all otherwise; a failed
\* validation is the error returned, and the endpoint error is returned only
\* when validation was skipped or accepted the credentials.
C3_ValidationBeforeEndpoint ==
    (Done /\ BadEndpoint /\ ~CredentialsMissing) =>
        /\ result = NULL
        /\ d.validate => (validateCalls = 1 /\ validation # NULL)
        /\ ~d.validate => (validateCalls = 0 /\ validation = NULL)
        /\ IF d.validate /\ Val(validation) # "ok"
           THEN err.kind \in ValidationKinds
           ELSE err.kind \in EndpointKinds

C3_Witness ==
    /\ Done /\ BadEndpoint /\ d.validate
    /\ validateCalls = 1
    /\ validation = Some("ok")
    /\ err.kind = "MalformedEndpoint"

\* C4: with validate true and both credentials set, a configuration object is
\* returned only if Validate completed and accepted; a transport error and a
\* non-acceptance each give their own error and no configuration object, and
\* Validate is not called again.
C4_ValidationGatesResult ==
    (Done /\ d.validate /\ BothKeys) =>
        /\ validation # NULL
        /\ validateCalls = 1
        /\ result # NULL => Val(validation) = "ok"
        /\ Val(validation) = "transport_error" =>
             (err.kind = "ValidationTransportError" /\ result = NULL)
        /\ Val(validation) = "rejected" =>
             (err.kind = "InvalidCredentials" /\ result = NULL)

C4_Witness ==
    /\ Done /\ d.validate /\ BothKeys
    /\ validation = Some("rejected")
    /\ err.kind = "InvalidCredentials"
    /\ result = NULL

\* C5: once the endpoint check runs on a non-empty api_url it has one of three
\* outcomes: malformed (the parse fails), incomplete (it parses, host or scheme
\* empty), or an override; both failures end the run with no configuration
\* object and no context carrying an override.
C5_EndpointOutcomes ==
    (Done /\ d.api_url # <<>> /\ configV1 # NULL) =>
        LET parsed == ParseURL(d.api_url) IN
        IF parsed.err
        THEN /\ err.kind = "MalformedEndpoint"
             /\ result = NULL /\ authV1 = NULL /\ authV2 = NULL
        ELSE IF parsed.Host = <<>> \/ parsed.Scheme = <<>>
        THEN /\ err.kind = "IncompleteEndpoint"
             /\ result = NULL /\ authV1 = NULL /\ authV2 = NULL
        ELSE /\ err = NoError
             /\ result # NULL
             /\ Has(Val(result).AuthV1, "ContextServerVariables")
             /\ Has(Val(result).AuthV2, "ContextServerVariables")

C5_Witness ==
    /\ Done /\ d.api_url = <<"w", ".", "x">>
    /\ err.kind = "IncompleteEndpoint"
    /\ result = NULL

\* C6 as claimed: the three clients of one bootstrap carry one User-Agent.
C6_SameUserAgent ==
    (Done /\ result # NULL) =>
        /\ Val(result).CommunityClient.UserAgent = Val(result).DatadogClientV1.UserAgent
        /\ Val(result).DatadogClientV1.UserAgent = Val(result).DatadogClientV2.UserAgent

\* C6 as amended: the three User-Agents start with the same provider identity,
\* made of the three version inputs, and each ends with the agent of its own
\* client (getUserAgent is evaluated once per client).
C6_SameIdentityPrefix ==
    (Done /\ result # NULL) =>
        LET identity == <<"terraform-provider-datadog/", env.ProviderVersion,
                          " (terraform ", env.SDKVersion,
                          "; terraform-cli ", env.TerraformVersion, ") ">>
        IN
        /\ Val(result).CommunityClient.UserAgent =
             identity \o <<"datadog-api-client-go/", "go-datadog-api", " (go ",
                           env.goVersion, "; os ", env.GOOS, "; arch ",
                           env.GOARCH, ")">>
        /\ Val(result).DatadogClientV1.UserAgent = identity \o env.v1UserAgent
        /\ Val(result).DatadogClientV2.UserAgent = identity \o env.v2UserAgent

C6_Witness ==
    /\ Done /\ result # NULL
    /\ Val(result).CommunityClient.UserAgent # Val(result).DatadogClientV1.UserAgent
    /\ SubSeq(Val(result).CommunityClient.UserAgent, 1, 7)
         = SubSeq(Val(result).DatadogClientV2.UserAgent, 1, 7)

\* C7: after a successful bootstrap the endpoint is redirected in all clients
\* or in none: with an api_url the legacy base URL is the api_url and both
\* contexts select server 1 with the parsed host and scheme; without one the
\* legacy client keeps the default base URL and neither context carries a
\* server index or server variables.
C7_OverrideAllOrNone ==
    (Done /\ result # NULL) =>
        LET r == Val(result) IN
        IF d.api_url # <<>>
        THEN /\ r.CommunityClient.baseUrl = d.api_url
             /\ \A a \in {r.AuthV1, r.AuthV2} :
                  /\ Has(a, "ContextServerIndex")
                  /\ a["ContextServerIndex"] = 1
                  /\ Has(a, "ContextServerVariables")
                  /\ a["ContextServerVariables"] =
                       [name     |-> ParseURL(d.api_url).Host,
                        protocol |-> ParseURL(d.api_url).Scheme]
        ELSE /\ r.CommunityClient.baseUrl = DefaultBaseUrl
             /\ \A a \in {r.AuthV1, r.AuthV2} :
                  /\ ~Has(a, "ContextServerIndex")
                  /\ ~Has(a, "ContextServerVariables")

C7_Witness ==
    /\ Done /\ result # NULL
    /\ d.api_url = <<"S", "x", ":", "/", "/", "w", ".", "x", ":", "8", "/", "y">>
    /\ Val(result).AuthV2["ContextServerVariables"] =
         [name |-> <<"w", ".", "x", ":", "8">>, protocol |-> <<"s", "x">>]

\* C8 as claimed: each of the two contexts carries the per-operation routing
\* exactly when api_url is set.
C8_RoutingInBothContexts ==
    (Done /\ result # NULL) =>
        \A a \in {Val(result).AuthV1, Val(result).AuthV2} :
            /\ Has(a, "ContextOperationServerIndices") <=> d.api_url # <<>>
            /\ Has(a, "ContextOperationServerVariables") <=> d.api_url # <<>>

\* C8 as amended: the v1 context carries the per-operation routing exactly
\* when api_url is set; the v2 context never carries any.
C8_RoutingInV1Only ==
    (Done /\ result # NULL) =>
        /\ Has(Val(result).AuthV1, "ContextOperationServerIndices") <=> d.api_url # <<>>
        /\ Has(Val(result).AuthV1, "ContextOperationServerVariables") <=> d.api_url # <<>>
        /\ ~Has(Val(result).AuthV2, "ContextOperationServerIndices")
        /\ ~Has(Val(result).AuthV2, "ContextOperationServerVariables")

C8_Witness ==
    /\ Done /\ result # NULL /\ d.api_url # <<>>
    /\ Has(Val(result).AuthV1, "ContextOperationServerVariables")
    /\ ~Has(Val(result).AuthV2, "ContextOperationServerVariables")

\* C9: the IP-ranges host is "ip-ranges" followed by the labels of the
\* override host, the leftmost one dropped when there are more than two,
\* joined with "."; it is attached to IPRangesApiService.GetIPRanges alone.
C9_IPRangesHost ==
    (Done /\ result # NULL /\ d.api_url # <<>>) =>
        LET a == Val(result).AuthV1
            l == Split(Hostname(ParseURL(d.api_url).Host), ".")
            n == Len(l)
            kept == IF n > 2 THEN [i \in 1..(n-1) |-> l[i+1]] ELSE l
        IN
        /\ DOMAIN a["ContextOperationServerVariables"] = {"IPRangesApiService.GetIPRanges"}
        /\ DOMAIN a["ContextOperationServerIndices"] = {"IPRangesApiService.GetIPRanges"}
        /\ a["ContextOperationServerIndices"]["IPRangesApiService.GetIPRanges"] = 1
        /\ a["ContextOperationServerVariables"]["IPRangesApiService.GetIPRanges"] =
             [name |-> Join(<<<<"i", "p", "-", "r", "a", "n", "g", "e", "s">>>> \o kept, ".")]

C9_Witness ==
    /\ Done /\ result # NULL
    /\ d.api_url = <<"S", "x", ":", "/", "/", "w", ".", "x", ".", "y", ".", "z">>
    /\ Val(result).AuthV1["ContextOperationServerVariables"]["IPRangesApiService.GetIPRanges"].name
         = <<"i", "p", "-", "r", "a", "n", "g", "e", "s", ".", "x", ".", "y", ".", "z">>

\* C10: translateClientError returns a non-empty message that holds the
\* context (the default phrase for an empty one) and, for a structured API
\* error, the error text and the decoded body; for a URL-level error the
\* URL-layer tag; for any other error the error text.
C10_TranslationKeepsContext ==
    translated # NULL =>
        LET t   == Val(translated)
            ctx == IF t.msg = <<>> THEN <<"an error occurred">> ELSE t.msg
        IN
        /\ t.out # <<>>
        /\ Contains(t.out, ctx)
        /\ Contains(t.out, <<t.err.text>>)
        /\ t.err.type \in {"datadogV1.GenericOpenAPIError",
                           "datadogV2.GenericOpenAPIError"}
             => Contains(t.out, <<t.err.body>>)
        /\ t.err.type = "*url.Error" => Contains(t.out, <<" (url.Error): ">>)
====
